---- MODULE Spec2Model ----
(***************************************************************************)
(* A model of mastermind.py: the scoring rule compute_answer and the       *)
(* ComputerCodeBreaker (Knuth's five-guess minimax solver).                *)
(*                                                                         *)
(* A code is a sequence of CodeLen symbols of COLORS.  The string 'AABB'   *)
(* returned by initial_guess and the tuples of _all_codes are both         *)
(* sequences of one-character symbols to compute_answer, and are modelled  *)
(* alike as TLA+ sequences of one-character strings.                       *)
(***************************************************************************)
EXTENDS Integers, Sequences, FiniteSets, Bags, TLC

\* COLORS = 'ABCDEF'
COLORS == <<"A", "B", "C", "D", "E", "F">>

\* repeat=4 in itertools.product(COLORS, repeat=4)
CodeLen == 4

\* The most guess() calls with an outstanding guess explored in one session.
MaxRounds == 4

\* The most failing guess() calls explored in one session.
MaxFailed == 2

\* self._last_guess = None
None == <<>>

\* Evaluates every element of a function over 1..n, giving a sequence.
Tabulate(fn) == SubSeq(fn, 1, Len(fn))

NumColors == Len(COLORS)

NumCodes == NumColors ^ CodeLen

\* The position of a symbol in COLORS.
ColorIndex(sym) == CHOOSE k \in 1..NumColors : COLORS[k] = sym

\* list(itertools.product(COLORS, repeat=4)): every code, the rightmost
\* position advancing fastest.
all_codes ==
    Tabulate([n \in 1..NumCodes |->
        Tabulate([p \in 1..CodeLen |->
            COLORS[(((n - 1) \div (NumColors ^ (CodeLen - p))) % NumColors) + 1]])])

\* The position of a code in all_codes.
CodeIndex(code) ==
    1 + (ColorIndex(code[1]) - 1) * (NumColors ^ 3)
      + (ColorIndex(code[2]) - 1) * (NumColors ^ 2)
      + (ColorIndex(code[3]) - 1) * NumColors
      + (ColorIndex(code[4]) - 1)

Universe == {all_codes[n] : n \in 1..NumCodes}

(***************************************************************************)
(* compute_answer(guess, code)                                             *)
(***************************************************************************)

\* A removal that drops every occurrence of color.
ListRemoveAll(lst, color) == SelectSeq(lst, LAMBDA sym : sym # color)

\* remained_code.remove(color): drops the first occurrence of color.
ListRemove(lst, color) ==
    LET k == CHOOSE k \in 1..Len(lst) :
                 lst[k] = color /\ \A j \in 1..(k - 1) : lst[j] # color
    IN SubSeq(lst, 1, k - 1) \o SubSeq(lst, k + 1, Len(lst))

\* The second loop without remained_code.remove(color).
SecondPassNoRemove(remained_guess, remained_code, k, white) ==
    white + Cardinality({i \in k..Len(remained_guess) :
                            \E j \in 1..Len(remained_code) :
                                remained_code[j] = remained_guess[i]})

\* The second loop: for color in remained_guess, from position k on.
RECURSIVE SecondPass(_, _, _, _)
SecondPass(remained_guess, remained_code, k, white) ==
    IF k > Len(remained_guess) THEN white
    ELSE IF \E j \in 1..Len(remained_code) : remained_code[j] = remained_guess[k]
         THEN SecondPass(remained_guess,
                         ListRemove(remained_code, remained_guess[k]),
                         k + 1, white + 1)
         ELSE SecondPass(remained_guess, remained_code, k + 1, white)

\* The first loop appending to both lists at every position, matched or not.
compute_answer_nothing_set_aside(guess, code) ==
    LET black == Cardinality({i \in 1..Len(guess) : guess[i] = code[i]})
    IN <<black, SecondPass(guess, code, 1, 0)>>

\* The first loop appending code[i] to remained_code at every position,
\* matched or not.
compute_answer_code_not_reduced(guess, code) ==
    LET unmatched == SelectSeq([i \in 1..Len(guess) |-> i],
                               LAMBDA i : guess[i] # code[i])
        black == Len(guess) - Len(unmatched)
        remained_guess == [k \in 1..Len(unmatched) |-> guess[unmatched[k]]]
    IN <<black, SecondPass(remained_guess, code, 1, 0)>>

\* compute_answer(guess, code): black and white after the two loops
compute_answer(guess, code) ==
    LET unmatched == SelectSeq([i \in 1..Len(guess) |-> i],
                               LAMBDA i : guess[i] # code[i])
        black == Len(guess) - Len(unmatched)
        remained_guess == [k \in 1..Len(unmatched) |-> guess[unmatched[k]]]
        remained_code == [k \in 1..Len(unmatched) |-> code[unmatched[k]]]
    IN <<black, SecondPass(remained_guess, remained_code, 1, 0)>>

\* compute_answer over all_codes x all_codes, evaluated once.
AnswerTable ==
    Tabulate([g \in 1..NumCodes |->
        Tabulate([c \in 1..NumCodes |-> compute_answer(all_codes[g], all_codes[c])])])

(***************************************************************************)
(* ComputerCodeBreaker                                                     *)
(***************************************************************************)

\* The feedback values a caller may pass to guess(): two counts whose sum
\* does not exceed the code length.
Answers == {a \in (0..CodeLen) \X (0..CodeLen) : a[1] + a[2] <= CodeLen}

\* compute_answer accepting None as a guess of no positions.
FilterNeverRaises(cands, guess) == FALSE

\* compute_answer(self._last_guess, c) raises TypeError when the guess is
\* None (enumerate(None)), which the filter meets at its first candidate.
FilterRaises(cands, guess) == guess = None /\ cands # {}

\* Filter comparing the answer with its two counts exchanged.
FilterSwapped(cands, guess, answer) ==
    {c \in cands : compute_answer(guess, c) = <<answer[2], answer[1]>>}

\* Filter taking the codes from the whole Universe instead of self._S.
FilterFromAllCodes(cands, guess, answer) ==
    {c \in Universe : compute_answer(guess, c) = answer}

\* Filter comparing the black count only.
FilterBlackOnly(cands, guess, answer) ==
    {c \in cands : compute_answer(guess, c)[1] = answer[1]}

\* set(filter(lambda c: compute_answer(self._last_guess, c) == answer, self._S))
Filter(cands, guess, answer) ==
    {c \in cands : compute_answer(guess, c) = answer}

\* The positions in all_codes of a set of codes.
Indices(cands) == {CodeIndex(c) : c \in cands}

\* hit_count after the inner loop for all_codes[g] over the candidates at
\* positions idx: the bag of their answers, i.e. the number of candidates
\* giving each answer that occurs.
hit_count(g, idx) ==
    LET row == AnswerTable[g]
        AnswerOf(c) == row[c]
    IN BagOfAll(AnswerOf, SetToBag(idx))

\* max(hit_count.values()), of a non-empty hit_count
MaxValue(hc) ==
    CHOOSE m \in {hc[a] : a \in DOMAIN hc} : \A a \in DOMAIN hc : hc[a] <= m

\* The score taken from the smallest bucket of hit_count instead of the
\* largest.
ScoreMinBucket(g, idx) ==
    LET hc == hit_count(g, idx)
    IN Cardinality(idx) - (CHOOSE m \in {hc[a] : a \in DOMAIN hc} :
                               \A a \in DOMAIN hc : hc[a] >= m)

\* score = len(self._S) - max(hit_count.values())
Score(g, idx) == Cardinality(idx) - MaxValue(hit_count(g, idx))

\* The iteration with "score >= max_score" as the test that restarts
\* max_score_guesses.
LoopBodyResetOnTie(g, idx, st) ==
    LET score == Score(g, idx)
        st1 == IF score >= st[1] THEN <<score, <<g>>>> ELSE st
    IN IF score = st1[1] THEN <<st1[1], Append(st1[2], g)>> ELSE st1

\* One iteration of the loop over self._all_codes, for all_codes[g]; st is
\* <<max_score, max_score_guesses>> (the guesses as positions in all_codes).
LoopBody(g, idx, st) ==
    LET score == Score(g, idx)
        st1 == IF score > st[1] THEN <<score, <<g>>>> ELSE st
    IN IF score = st1[1] THEN <<st1[1], Append(st1[2], g)>> ELSE st1

\* The iterations for all_codes[lo..hi] in order, from st.  The range is
\* halved so that the evaluation nests to a depth of log(hi - lo); the test
\* on the state after the first half (max_score never exceeds the number of
\* candidates) has that half evaluated before the second is entered.
RECURSIVE MinimaxLoop(_, _, _, _)
MinimaxLoop(lo, hi, idx, st) ==
    IF lo = hi THEN LoopBody(lo, idx, st)
    ELSE LET mid == (lo + hi) \div 2
             first == MinimaxLoop(lo, mid, idx, st)
         IN IF first[1] <= Cardinality(idx)
            THEN MinimaxLoop(mid + 1, hi, idx, first)
            ELSE first

\* The choice without the preference for candidates: the first
\* maximal-score code.
NextGuessNoPreference(cands) ==
    all_codes[MinimaxLoop(1, NumCodes, Indices(cands), <<0, <<>>>>)[2][1]]

\* The choice taking the last of the maximal-score candidates, else the last
\* maximal-score code.
NextGuessPrefersLast(cands) ==
    LET cand_idx == Indices(cands)
        max_score_guesses == MinimaxLoop(1, NumCodes, cand_idx, <<0, <<>>>>)[2]
        max_score_guesses_in_s == SelectSeq(max_score_guesses, LAMBDA g : g \in cand_idx)
    IN IF max_score_guesses_in_s # <<>>
       THEN all_codes[max_score_guesses_in_s[Len(max_score_guesses_in_s)]]
       ELSE all_codes[max_score_guesses[Len(max_score_guesses)]]

\* The guess chosen for a non-empty candidate set: the first maximal-score
\* code that is a candidate, else the first maximal-score code.
NextGuess(cands) ==
    LET cand_idx == Indices(cands)
        max_score_guesses == MinimaxLoop(1, NumCodes, cand_idx, <<0, <<>>>>)[2]
        max_score_guesses_in_s == SelectSeq(max_score_guesses, LAMBDA g : g \in cand_idx)
    IN IF max_score_guesses_in_s # <<>>
       THEN all_codes[max_score_guesses_in_s[1]]
       ELSE all_codes[max_score_guesses[1]]

VARIABLES
    S,           \* self._S
    last_guess,  \* self._last_guess
    history,     \* the rounds played, one per guess() call made with a guess
                 \* outstanding: <<that guess, the answer passed, the outcome>>
    call,        \* the last call made: <<"none">>, <<"initial_guess">> or
                 \* <<"guess", answer>>
    outcome      \* how the last call ended: "none" before any call,
                 \* "returned", "TypeError" or "ValueError"

vars == <<S, last_guess, history, call, outcome>>

\* The guess() calls of the session so far that raised with a guess
\* outstanding.
Failures == Cardinality({i \in 1..Len(history) : history[i][3] # "returned"})

\* __init__
Init ==
    /\ S = Universe
    /\ last_guess = None
    /\ history = <<>>
    /\ call = <<"none">>
    /\ outcome = "none"

\* initial_guess(), called once per session, as play_game does.
InitialGuess ==
    /\ last_guess = None
    /\ last_guess' = <<"A", "A", "B", "B">>
    /\ call' = <<"initial_guess">>
    /\ outcome' = "returned"
    /\ UNCHANGED <<S, history>>

\* guess(answer) with max(hit_count.values(), default=0): on an empty
\* candidate set every code scores 0 and the first code is returned.
GuessReturnsOnEmpty(answer) ==
    /\ call' = <<"guess", answer>>
    /\ IF FilterRaises(S, last_guess)
       THEN /\ outcome' = "TypeError"
            /\ UNCHANGED <<S, last_guess, history>>
       ELSE /\ Len(history) < MaxRounds
            /\ Failures < MaxFailed
            /\ LET filtered == Filter(S, last_guess, answer)
               IN /\ S' = filtered
                  /\ last_guess' = IF filtered = {} THEN all_codes[1]
                                   ELSE NextGuess(filtered)
                  /\ outcome' = "returned"
            /\ history' = Append(history, <<last_guess, answer, outcome'>>)

\* guess(answer)
Guess(answer) ==
    /\ call' = <<"guess", answer>>
    /\ IF FilterRaises(S, last_guess)
       THEN \* the TypeError leaves guess() before self._S is assigned
            /\ outcome' = "TypeError"
            /\ UNCHANGED <<S, last_guess, history>>
       ELSE /\ Len(history) < MaxRounds
            /\ Failures < MaxFailed
            /\ LET filtered == Filter(S, last_guess, answer)
               IN /\ S' = filtered
                  /\ IF filtered = {}
                     THEN \* max() of an empty sequence raises ValueError
                          /\ last_guess' = last_guess
                          /\ outcome' = "ValueError"
                     ELSE /\ last_guess' = NextGuess(filtered)
                          /\ outcome' = "returned"
            /\ history' = Append(history, <<last_guess, answer, outcome'>>)

Next ==
    \/ InitialGuess
    \/ \E answer \in Answers : Guess(answer)

Spec == Init /\ [][Next]_vars

(***************************************************************************)
(* The solver with initial_guess() callable at any time, as the class      *)
(* allows: the method has no precondition.                                 *)
(***************************************************************************)

\* initial_guess() leaving a guess already recorded in place.
InitialGuessKeepsRecorded ==
    /\ last_guess' = IF last_guess = None THEN <<"A", "A", "B", "B">> ELSE last_guess
    /\ call' = <<"initial_guess">>
    /\ outcome' = "returned"
    /\ UNCHANGED <<S, history>>

\* initial_guess() starting the candidate set afresh.
InitialGuessResetsCandidates ==
    /\ last_guess' = <<"A", "A", "B", "B">>
    /\ S' = Universe
    /\ call' = <<"initial_guess">>
    /\ outcome' = "returned"
    /\ UNCHANGED history

\* initial_guess(), in whatever state the solver is
InitialGuessAnyTime ==
    /\ last_guess' = <<"A", "A", "B", "B">>
    /\ call' = <<"initial_guess">>
    /\ outcome' = "returned"
    /\ UNCHANGED <<S, history>>

NextAnyTime ==
    \/ InitialGuessAnyTime
    \/ \E answer \in Answers : Guess(answer)

SpecAnyTime == Init /\ [][NextAnyTime]_vars

(***************************************************************************)
(* compute_answer as the module-level function it is: one call of it on    *)
(* any two codes.                                                          *)
(***************************************************************************)

\* compute_answer(guess, code)
ComputeAnswer(guess, code) ==
    /\ call' = <<"compute_answer", guess, code>>
    /\ outcome' = compute_answer(guess, code)
    /\ UNCHANGED <<S, last_guess, history>>

\* One call per behaviour, on any two codes.
NextAnswer ==
    /\ call = <<"none">>
    /\ \E guess \in Universe, code \in Universe : ComputeAnswer(guess, code)

\* No solver takes part in the call: its fields are held empty.
InitAnswer ==
    /\ S = {}
    /\ last_guess = None
    /\ history = <<>>
    /\ call = <<"none">>
    /\ outcome = "none"

SpecAnswer == InitAnswer /\ [][NextAnswer]_vars

(***************************************************************************)
(* Definitions used to state the properties                                *)
(***************************************************************************)

\* "at most five guesses" (the docstring of ComputerCodeBreaker)
FiveGuesses == 5

\* The perfect-match answer.
Perfect == <<CodeLen, 0>>

\* The positions in all_codes of the guesses the rounds were played on.
RoundGuesses == Tabulate([i \in 1..Len(history) |-> CodeIndex(history[i][1])])

\* Every answer passed so far is compute_answer(guess of the round, secret),
\* for the secret all_codes[n]; rg is RoundGuesses.
Truthful(rg, n) ==
    \A i \in 1..Len(history) : AnswerTable[rg[i]][n] = history[i][2]

\* a is before b in the lexicographic order of COLORS.
LexLess(a, b) ==
    \E p \in 1..CodeLen :
        /\ \A q \in 1..(p - 1) : a[q] = b[q]
        /\ ColorIndex(a[p]) < ColorIndex(b[p])

\* The last call was a guess() that returned a code.
GuessReturned == call[1] = "guess" /\ outcome = "returned"

(***************************************************************************)
(* C1: for every secret code, the session that starts with initial_guess() *)
(* and passes the truthful answer to every guess() never fails and has    *)
(* guessed the secret (an answer of (4,0)) within five guesses, the        *)
(* initial one included.  The guesses made are those of the rounds         *)
(* followed by the outstanding one.                                        *)
(***************************************************************************)
C1_SolvedWithinFiveGuesses ==
    (last_guess # None /\ (Failures > 0 \/ Len(history) >= FiveGuesses - 1)) =>
        LET rg == RoundGuesses
            made == Append(rg, CodeIndex(last_guess))
        IN \A n \in 1..NumCodes :
               Truthful(rg, n) =>
                   /\ Failures = 0
                   /\ \E k \in 1..FiveGuesses : AnswerTable[made[k]][n] = Perfect

\* A truthful session that needs all five guesses: four rounds played without
\* a perfect answer, the fifth guess outstanding is the secret.
C1_Witness ==
    /\ Len(history) = FiveGuesses - 1
    /\ outcome = "returned"
    /\ \A i \in 1..Len(history) : history[i][2] # Perfect
    /\ LET rg == RoundGuesses
       IN \E n \in 1..NumCodes : Truthful(rg, n) /\ all_codes[n] = last_guess

(***************************************************************************)
(* C2: whenever every answer passed to guess() so far is the truthful one  *)
(* for a secret code, that secret is a member of the candidate set S: at   *)
(* construction and after every guess() call.                              *)
(***************************************************************************)
C2_SecretStaysCandidate ==
    LET rg == RoundGuesses
    IN \A n \in 1..NumCodes : Truthful(rg, n) => all_codes[n] \in S

\* Two rounds played truthfully for a secret that is still one of several
\* candidates.
C2_Witness ==
    /\ Len(history) = 2
    /\ Cardinality(S) > 1
    /\ LET rg == RoundGuesses
       IN \E n \in 1..NumCodes : Truthful(rg, n) /\ all_codes[n] \in S

(***************************************************************************)
(* C3: the candidate set never grows: after every call, whatever the       *)
(* answer passed and whether the call returns or raises, S is a subset of  *)
(* what it was before the call.                                            *)
(***************************************************************************)
C3_CandidatesNeverGrow == [][S' \subseteq S]_vars

\* A guess() that returned after removing some but not all candidates of an
\* already reduced set.
C3_Witness ==
    /\ Len(history) = 2
    /\ outcome = "returned"
    /\ S # {}
    /\ S # Filter(Universe, history[1][1], history[1][2])

(***************************************************************************)
(* C4: after initial_guess() and any guess() calls, S is exactly the set   *)
(* of codes c of the Universe with compute_answer(g_i, c) = f_i for every  *)
(* round i played (g_i the guess outstanding when f_i was passed).         *)
(***************************************************************************)
C4_CandidatesAreTheConsistentCodes ==
    LET rg == RoundGuesses
    IN S = {all_codes[n] : n \in {m \in 1..NumCodes : Truthful(rg, m)}}

\* Three rounds played, each of which removed candidates, some left.
C4_Witness ==
    /\ Len(history) = 3
    /\ S # {}
    /\ Filter(Universe, history[3][1], history[3][2]) # S
    /\ Filter(Universe, history[1][1], history[1][2]) # S

\* The minimax score of all_codes[g] for the candidates at positions idx:
\* their number less the size of the largest set of them sharing one answer.
MinimaxScore(g, idx) == Cardinality(idx) - MaxValue(hit_count(g, idx))

(***************************************************************************)
(* C5: whenever guess() returns (the filtered candidate set S is then      *)
(* non-empty), no code of the whole Universe has a minimax score for S     *)
(* strictly larger than that of the returned code.                         *)
(***************************************************************************)
C5_GuessMaximisesMinimaxScore ==
    GuessReturned =>
        LET idx == Indices(S)
            returned == MinimaxScore(CodeIndex(last_guess), idx)
        IN \A g \in 1..NumCodes : MinimaxScore(g, idx) <= returned

\* A returned guess for several candidates that some code of the Universe
\* scores strictly lower than.
C5_Witness ==
    /\ GuessReturned
    /\ Cardinality(S) > 2
    /\ LET idx == Indices(S)
           returned == MinimaxScore(CodeIndex(last_guess), idx)
       IN returned > 0 /\ \E g \in 1..NumCodes : MinimaxScore(g, idx) < returned

(***************************************************************************)
(* C6: whenever guess() returns, the returned code is, among the codes of  *)
(* maximal minimax score, the lexicographically first one that is a        *)
(* candidate if any of them is a candidate, and otherwise the              *)
(* lexicographically first of them.                                        *)
(***************************************************************************)
C6_TieBreak ==
    GuessReturned =>
        LET idx == Indices(S)
            scores == Tabulate([g \in 1..NumCodes |-> MinimaxScore(g, idx)])
            values == {scores[g] : g \in 1..NumCodes}
            best == CHOOSE m \in values : \A v \in values : v <= m
            maximal == {g \in 1..NumCodes : scores[g] = best}
            pool == IF maximal \cap idx # {} THEN maximal \cap idx ELSE maximal
        IN /\ CodeIndex(last_guess) \in pool
           /\ \A g \in pool : ~LexLess(all_codes[g], last_guess)

\* A returned guess that is not a candidate (none of the maximal-score codes
\* is one) and that another code ties with.
C6_Witness ==
    /\ GuessReturned
    /\ last_guess \notin S
    /\ LET idx == Indices(S)
           returned == MinimaxScore(CodeIndex(last_guess), idx)
       IN \E g \in 1..NumCodes :
              all_codes[g] # last_guess /\ MinimaxScore(g, idx) = returned

(***************************************************************************)
(* C8: a guess() call whose filtering leaves the candidate set empty       *)
(* raises instead of returning a guess (and leaves the recorded guess      *)
(* alone), and from then on the candidate set stays empty and every        *)
(* guess() call raises.                                                    *)
(***************************************************************************)
C8_EmptyCandidateSetFails ==
    [][/\ (call'[1] = "guess" /\ S' = {}) =>
              (outcome' = "ValueError" /\ last_guess' = last_guess)
       /\ S = {} => (S' = {} /\ (call'[1] = "guess" => outcome' = "ValueError"))]_vars

\* A second guess() call raised on the empty candidate set.
C8_Witness ==
    /\ S = {}
    /\ call[1] = "guess"
    /\ outcome = "ValueError"
    /\ Failures = 2

(***************************************************************************)
(* C9: a guess() call made before any initial_guess() call raises,         *)
(* whatever the answer passed: it returns no guess and leaves the solver   *)
(* as constructed.                                                         *)
(***************************************************************************)
C9_GuessBeforeInitialGuessFails ==
    [][(last_guess = None /\ call'[1] = "guess") =>
           (outcome' = "TypeError" /\ S' = Universe /\ last_guess' = None)]_vars

\* A guess() call on a solver that made no initial_guess() raised.
C9_Witness ==
    /\ call[1] = "guess"
    /\ last_guess = None
    /\ outcome = "TypeError"
    /\ S = Universe

(***************************************************************************)
(* C10 as stated: once a guess() call that received the answer (4,0) has   *)
(* returned, no later guess() call of the session returns a guess.         *)
(***************************************************************************)
C10_NoGuessAfterPerfectAnswer ==
    \A i \in 1..Len(history) : \A j \in 1..Len(history) :
        (i < j /\ history[i][2] = Perfect /\ history[i][3] = "returned") =>
            history[j][3] # "returned"

(***************************************************************************)
(* C10 amended: a guess() call that receives (4,0) records no solved       *)
(* state.  If the outstanding guess is a candidate the call leaves that    *)
(* guess as the only candidate and returns it again, otherwise it raises   *)
(* with the candidate set empty.  A guess() call after one that returned   *)
(* on (4,0) is not rejected: on (4,0) it returns the same code again, on   *)
(* any other answer it raises with the candidate set empty.                *)
(***************************************************************************)
C10_PerfectAnswerKeepsGuessing ==
    [][/\ (last_guess # None /\ call' = <<"guess", Perfect>>) =>
              IF last_guess \in S
              THEN S' = {last_guess} /\ last_guess' = last_guess /\ outcome' = "returned"
              ELSE S' = {} /\ last_guess' = last_guess /\ outcome' = "ValueError"
       /\ (call = <<"guess", Perfect>> /\ outcome = "returned" /\ call'[1] = "guess") =>
              IF call'[2] = Perfect
              THEN S' = S /\ last_guess' = last_guess /\ outcome' = "returned"
              ELSE S' = {} /\ outcome' = "ValueError"]_vars

\* Two successive guess() calls on (4,0) returned.
C10_Witness ==
    /\ Len(history) >= 2
    /\ history[Len(history)][2] = Perfect
    /\ history[Len(history) - 1][2] = Perfect
    /\ history[Len(history) - 1][3] = "returned"
    /\ GuessReturned

\* The fixed opening guess.
Opening == <<"A", "A", "B", "B">>

(***************************************************************************)
(* C11 as stated: an initial_guess() call made when a guess is already     *)
(* recorded (after a first initial_guess() or after any guess() call) is   *)
(* rejected and does not replace the recorded guess.                       *)
(***************************************************************************)
C11_InitialGuessOnlyWhenReady ==
    [][(last_guess # None /\ call' = <<"initial_guess">>) =>
           (outcome' # "returned" /\ last_guess' = last_guess)]_vars

(***************************************************************************)
(* C11 amended: initial_guess() is accepted in every state.  A call made   *)
(* when a guess is already recorded, after a first initial_guess() or      *)
(* after any guess() call, returning or raising, returns AABB again and    *)
(* replaces the recorded guess by AABB; the rounds played and the          *)
(* candidate set stay as they are.                                         *)
(***************************************************************************)
C11_InitialGuessAlwaysAccepted ==
    [][(last_guess # None /\ call' = <<"initial_guess">>) =>
           /\ outcome' = "returned"
           /\ last_guess' = Opening
           /\ UNCHANGED <<S, history>>]_vars

\* initial_guess() returned after a guess() call that returned, in a session
\* where AABB is no longer a candidate.
C11_Witness ==
    /\ call = <<"initial_guess">>
    /\ last_guess = Opening
    /\ Len(history) >= 1
    /\ history[Len(history)][3] = "returned"
    /\ S # Universe
    /\ Opening \notin S

(***************************************************************************)
(* C12: initial_guess() on a fresh solver returns AABB, records it as the  *)
(* last guess and leaves the candidate set the whole Universe of 1296      *)
(* codes; no call but guess() ever changes the candidate set.              *)
(***************************************************************************)
C12_InitialGuessFrame ==
    [][/\ (last_guess = None /\ call' = <<"initial_guess">>) =>
              /\ outcome' = "returned"
              /\ last_guess' = Opening
              /\ S' = Universe
              /\ Cardinality(S') = 1296
       /\ S' # S => call'[1] = "guess"]_vars

\* The first call of a session was initial_guess().
C12_Witness ==
    /\ call = <<"initial_guess">>
    /\ outcome = "returned"
    /\ history = <<>>
    /\ last_guess = Opening
    /\ S = Universe

\* Some secret code has every answer passed so far as its truthful answer.
TruthfulSession ==
    LET rg == RoundGuesses
    IN \E n \in 1..NumCodes : Truthful(rg, n)

(***************************************************************************)
(* C15: when exactly one candidate is left after the filtering of a        *)
(* guess() call, the call returns that candidate.                          *)
(***************************************************************************)
C15_SingleCandidateReturned ==
    (call[1] = "guess" /\ last_guess # None /\ Cardinality(S) = 1) =>
        (outcome = "returned" /\ S = {last_guess})

\* A guess() call that received an answer other than (4,0) returned with one
\* candidate left.
C15_Witness ==
    /\ GuessReturned
    /\ Cardinality(S) = 1
    /\ call[2] # Perfect

(***************************************************************************)
(* C16: in a session that starts with initial_guess() and passes to each   *)
(* guess() the truthful answer for one secret code, every guess() call     *)
(* that receives an answer other than (4,0) leaves strictly fewer          *)
(* candidates than it found, and the first guess() call leaves fewer than  *)
(* 1296 whatever it receives.                                              *)
(***************************************************************************)
C16_TruthfulAnswerShrinksCandidates ==
    [][(/\ call'[1] = "guess"
        /\ last_guess # None
        /\ LET rg == RoundGuesses
           IN \E n \in 1..NumCodes :
                  /\ Truthful(rg, n)
                  /\ AnswerTable[CodeIndex(last_guess)][n] = call'[2]) =>
           /\ call'[2] # Perfect => Cardinality(S') < Cardinality(S)
           /\ history = <<>> => Cardinality(S') < 1296]_vars

\* The second guess() call of a truthful session received an answer other
\* than (4,0), and returned with fewer candidates than the first had left.
C16_Witness ==
    /\ Len(history) = 2
    /\ GuessReturned
    /\ call[2] # Perfect
    /\ TruthfulSession
    /\ Cardinality(S) < Cardinality(Filter(Universe, history[1][1], history[1][2]))

(***************************************************************************)
(* C17: in a truthful session for one secret code, as long as no answer    *)
(* passed has been (4,0), the guesses made so far (the initial AABB, the   *)
(* guess of every round and the guess outstanding) are pairwise distinct.  *)
(***************************************************************************)
C17_NoRepeatedGuess ==
    (/\ last_guess # None
     /\ TruthfulSession
     /\ \A i \in 1..Len(history) : history[i][2] # Perfect) =>
        LET made == Append(RoundGuesses, CodeIndex(last_guess))
        IN \A i \in 1..Len(made) : \A j \in 1..Len(made) :
               i # j => made[i] # made[j]

\* Four rounds of a truthful session played without a (4,0): five guesses
\* made.
C17_Witness ==
    /\ Len(history) = 4
    /\ GuessReturned
    /\ TruthfulSession
    /\ \A i \in 1..Len(history) : history[i][2] # Perfect

(***************************************************************************)
(* Definitions used to state the properties of compute_answer              *)
(***************************************************************************)

\* The last step was a call compute_answer(call[2], call[3]) that returned
\* outcome.
AnswerComputed == call[1] = "compute_answer"

\* The number of positions of code that hold sym.
Occurrences(code, sym) == Cardinality({i \in 1..Len(code) : code[i] = sym})

Min(a, b) == IF a <= b THEN a ELSE b

\* The sum, over the symbols COLORS[k..], of the lesser of the symbol's
\* occurrences in guess and in code.
RECURSIVE SharedSymbols(_, _, _)
SharedSymbols(guess, code, k) ==
    IF k > NumColors THEN 0
    ELSE Min(Occurrences(guess, COLORS[k]), Occurrences(code, COLORS[k]))
             + SharedSymbols(guess, code, k + 1)

\* The answer by frequency counts.
FrequencyAnswer(guess, code) ==
    LET exact == Cardinality({i \in 1..Len(guess) : guess[i] = code[i]})
    IN <<exact, SharedSymbols(guess, code, 1) - exact>>

(***************************************************************************)
(* C13: for all codes a and b, compute_answer(a, a) = (4, 0), and          *)
(* compute_answer(a, b) = (exact, partial) has exact >= 0, partial >= 0    *)
(* and exact + partial <= 4.                                               *)
(***************************************************************************)
C13_AnswerRange ==
    AnswerComputed =>
        /\ outcome[1] >= 0
        /\ outcome[2] >= 0
        /\ outcome[1] + outcome[2] <= 4
        /\ call[2] = call[3] => outcome = <<4, 0>>

\* compute_answer returned for a code against itself.
C13_Witness ==
    /\ AnswerComputed
    /\ call[2] = call[3]
    /\ outcome = <<4, 0>>

(***************************************************************************)
(* C14: for all codes guess and code, compute_answer(guess, code) is the   *)
(* answer by frequency counts: exact = the number of positions where the   *)
(* two agree, partial = the sum over the symbols of the lesser of their    *)
(* occurrences in guess and in code, less exact; so                        *)
(* compute_answer('AABB', 'AAAA') = (2, 0).                                *)
(***************************************************************************)
C14_AnswerIsFrequencyCount ==
    AnswerComputed =>
        /\ outcome = FrequencyAnswer(call[2], call[3])
        /\ (call[2] = <<"A", "A", "B", "B">> /\ call[3] = <<"A", "A", "A", "A">>) =>
               outcome = <<2, 0>>

\* compute_answer returned for a guess whose two unmatched symbols both occur
\* in the code, each already matched there.
C14_Witness ==
    /\ call = <<"compute_answer", <<"A", "A", "B", "B">>, <<"A", "A", "A", "A">>>>
    /\ outcome = <<2, 0>>

(***************************************************************************)
(* C18: for all codes a and b, compute_answer(a, b) = compute_answer(b, a).*)
(***************************************************************************)
C18_AnswerSymmetric ==
    AnswerComputed => outcome = compute_answer(call[3], call[2])

\* compute_answer returned white pegs for two codes that agree nowhere, the
\* guess holding a symbol twice that the code holds once.
C18_Witness ==
    /\ AnswerComputed
    /\ outcome[1] = 0
    /\ outcome[2] > 0
    /\ \E sym \in {COLORS[k] : k \in 1..NumColors} :
           Occurrences(call[2], sym) = 2 /\ Occurrences(call[3], sym) = 1

(***************************************************************************)
(* C19: for all codes a and b, compute_answer(a, b) is never (3, 1): with  *)
(* exactly three positions matched the partial count is 0; and             *)
(* compute_answer(a, b) = (4, 0) only when a and b are the same code.      *)
(***************************************************************************)
C19_NoThreeOne ==
    AnswerComputed =>
        /\ outcome # <<3, 1>>
        /\ outcome[1] = 3 => outcome[2] = 0
        /\ outcome = <<4, 0>> => call[2] = call[3]

\* compute_answer returned for two codes that agree at exactly three
\* positions, the guess's fourth symbol occurring elsewhere in the code.
C19_Witness ==
    /\ AnswerComputed
    /\ outcome = <<3, 0>>
    /\ \E i \in 1..CodeLen : \E j \in 1..CodeLen :
           call[2][i] # call[3][i] /\ call[2][i] = call[3][j]

====
